---- MODULE Spec2Model ----
(***************************************************************************)
(* Verification model of the RAG core of virtus:                           *)
(*   backend/app/utils/chunking.py      (chunk_text, _chunk_by_chars,      *)
(*                                       extract_text)                     *)
(*   backend/app/services/embeddings.py (EmbeddingsService)                *)
(*   backend/app/services/rag.py        (RAGService)                       *)
(*   backend/app/api/v1/chat.py         (the RAG part of the chat          *)
(*                                       endpoints)                        *)
(*   backend/app/api/v1/data_sources.py (data source and document          *)
(*                                       handlers)                         *)
(*   backend/app/providers/*.py         (the four provider classes)        *)
(*   backend/app/services/model_registry.py, usage_tracker.py              *)
(*                                                                         *)
(* Eight specifications share the variables:                               *)
(*   SpecChunk     the chunker's loop, one iteration per step              *)
(*   SpecEmb       the EmbeddingsService operations over several tenants   *)
(*   SpecReingest  concurrent store_chunks calls for one document          *)
(*   Spec          the request handlers (upload, delete, query, chat)      *)
(*   SpecQuery     queries over an index holding points of any origin      *)
(*   SpecIngest    uploads of documents of more than one upsert batch      *)
(*   SpecProv      provider construction, embeddings, health, streaming    *)
(*   SpecChat      the chat endpoints and their usage records              *)
(*                                                                         *)
(* Strings that the code transforms character by character (tenant ids,    *)
(* collection names) are sequences of one-character strings.  A text is    *)
(* known by its length in tokens and in characters; a chunk's content is   *)
(* the span of positions it was cut from.                                  *)
(***************************************************************************)
EXTENDS Integers, Sequences, FiniteSets, TLC

VARIABLES
    \* ---- relational database (rag.py, data_sources.py)
    data_sources,   \* data source id -> DataSource row
    documents,      \* document id -> Document row
    ingest_log,     \* document id -> the statuses assigned to the row, in order
    next_uuid,      \* uuid4 values drawn so far, per table
    \* ---- raw file storage
    files,          \* storage path -> stored text
    \* ---- vector index (Qdrant): collection name -> (point id -> payload)
    qdrant,
    \* ---- the last finished call: its name, arguments, result or exception
    ret,
    \* ---- chunker: the call's arguments and the loop's local variables
    pc, text, arg_chunk_size, arg_chunk_overlap, tiktoken_ok,
    length, chunk_size, chunk_overlap, start, chunk_index, chunks,
    \* ---- the Settings object of the process (config.py)
    settings,
    \* ---- usage ledger: the UsageRecord rows, in the order they were added
    usage_records,
    \* ---- provider objects constructed so far (providers/*.py)
    providers,
    \* ---- HTTP stream handles the providers' stream() acquired
    streams,
    \* ---- store_chunks calls in progress: call id -> its position
    calls

db_vars    == <<data_sources, documents, ingest_log, next_uuid, files>>
ext_vars   == <<settings, usage_records, providers, streams, calls>>
sys_vars   == <<data_sources, documents, ingest_log, next_uuid, files,
                qdrant, ret, settings, usage_records, providers, streams, calls>>
chunk_vars == <<pc, text, arg_chunk_size, arg_chunk_overlap, tiktoken_ok,
                length, chunk_size, chunk_overlap, start, chunk_index, chunks>>
vars       == <<data_sources, documents, ingest_log, next_uuid, files,
                qdrant, ret,
                pc, text, arg_chunk_size, arg_chunk_overlap, tiktoken_ok,
                length, chunk_size, chunk_overlap, start, chunk_index, chunks,
                settings, usage_records, providers, streams, calls>>

\* Python's None
None == "None"

Min(a, b) == IF a < b THEN a ELSE b
Max(a, b) == IF a > b THEN a ELSE b

(***************************************************************************)
(* Settings (config.py)                                                   *)
(***************************************************************************)
CHUNK_SIZE == 512
CHUNK_OVERLAP == 50
TOP_K_DEFAULT == 5
BATCH_SIZE == 100
CHARS_PER_TOKEN == 4

\* the settings the providers read, with the defaults of config.py
DefaultSettings ==
    [OPENAI_API_KEY    |-> None,
     ANTHROPIC_API_KEY |-> None,
     OLLAMA_BASE_URL   |-> "http://localhost:11434",
     VLLM_BASE_URL     |-> None]

(***************************************************************************)
(* Bounds of the model                                                    *)
(***************************************************************************)
MaxTokens == 6
MaxChunkSize == 3
MaxDocs == 1
MaxEmbDocs == 2
MaxDataSources == 2
MaxCalls == 2
MaxTexts == 2
MaxProviders == 1
MaxStreams == 1
MaxFragments == 3
MaxUsage == 2
MaxWords == 4

\* iterations after which a loop that has not ended is cut off
MaxIter == MaxTokens + 2

(***************************************************************************)
(* Chunker (utils/chunking.py)                                            *)
(***************************************************************************)

\* an integer argument left at None
NoneArg == -1

\* `x or default`: None and 0 are both falsy
OrDefault(x, default) == IF x = NoneArg \/ x = 0 THEN default ELSE x

\* seq[start:end] of a sequence of n items: the half-open span of positions
\* Python selects (negative indices count from the end, all are clamped)
SliceIndex(i, n) == IF i < 0 THEN Max(i + n, 0) ELSE Min(i, n)
Slice(s, e, n) ==
    LET lo == SliceIndex(s, n)
        hi == SliceIndex(e, n)
    IN  IF hi > lo THEN <<lo, hi>> ELSE <<lo, lo>>
SliceLen(s, e, n) == Slice(s, e, n)[2] - Slice(s, e, n)[1]

\* end = min(start + chunk_size, len(tokens))
WindowEnd(s, size, n) == Min(s + size, n)

\* start = end - chunk_overlap if end < len(tokens) else end
NextStart(e, overlap, n) == IF e < n THEN e - overlap ELSE e

\* while start < len(tokens)
LoopCondDropsLast(s, n) == s < n - 1
LoopCond(s, n) == s < n

\* the dict appended to chunks; count_key is "token_count" or "char_count"
MakeChunk(metadata, s, e, n, idx, count_key) ==
    [content  |-> Slice(s, e, n),
     metadata |-> [chunk_index |-> idx] @@ (count_key :> SliceLen(s, e, n))
                    @@ metadata]

\* the chunk_index the loop carries to its next iteration
NextIndexForgotten(idx, e, n) == idx
NextIndex(idx, e, n) == idx + 1

\* the whole loop of chunk_text / _chunk_by_chars as a function; used by the
\* ingestion pipeline, where the arguments are the settings' defaults
RECURSIVE ChunkLoop(_, _, _, _, _, _, _, _)
ChunkLoop(n, size, overlap, s, idx, acc, metadata, count_key) ==
    IF ~LoopCond(s, n) THEN acc
    ELSE LET e == WindowEnd(s, size, n)
         IN  ChunkLoop(n, size, overlap, NextStart(e, overlap, n),
                       NextIndex(idx, e, n),
                       Append(acc, MakeChunk(metadata, s, e, n, idx, count_key)),
                       metadata, count_key)

chunk_by_chars(txt, size, overlap, metadata) ==
    ChunkLoop(txt.chars, size, overlap, 0, 0, <<>>, metadata, "char_count")

chunk_text(txt, cs, co, metadata, tiktoken) ==
    LET size    == OrDefault(cs, CHUNK_SIZE)
        overlap == OrDefault(co, CHUNK_OVERLAP)
    IN  IF tiktoken
        THEN ChunkLoop(txt.tokens, size, overlap, 0, 0, <<>>, metadata,
                       "token_count")
        ELSE chunk_by_chars(txt, size * CHARS_PER_TOKEN,
                            overlap * CHARS_PER_TOKEN, metadata)

\* ---- the same loop, one iteration per step -----------------------------

\* a text of t tokens; a token has one or more characters
Texts ==
    { x \in [tokens : 0..MaxTokens, chars : {0, 1, 2 * MaxTokens}] :
        /\ (x.tokens = 0) = (x.chars = 0)
        /\ x.chars >= x.tokens }

\* arguments with 0 <= chunk_overlap < chunk_size, and the defaults
ChunkArgs ==
    { <<cs, co>> \in (1..MaxChunkSize) \X (0..MaxChunkSize) : co < cs }
    \cup { <<NoneArg, NoneArg>> }
    \cup { <<CHUNK_OVERLAP + 1, 0>> }

\* texts long enough for several windows of the default size
LongTexts ==
    { [tokens |-> CHUNK_OVERLAP + 2, chars |-> CHARS_PER_TOKEN * (CHUNK_OVERLAP + 2)],
      [tokens |-> CHUNK_SIZE + 1, chars |-> CHARS_PER_TOKEN * (CHUNK_SIZE + 1)] }

InitChunk ==
    /\ pc = "call"
    /\ \E a \in ChunkArgs :
          /\ arg_chunk_size = a[1]
          /\ arg_chunk_overlap = a[2]
          /\ text \in (IF a[1] \in 1..MaxChunkSize THEN Texts ELSE Texts \cup LongTexts)
    /\ tiktoken_ok \in BOOLEAN
    /\ length = 0 /\ chunk_size = 0 /\ chunk_overlap = 0
    /\ start = 0 /\ chunk_index = 0 /\ chunks = <<>>
    /\ data_sources = <<>> /\ documents = <<>> /\ ingest_log = <<>>
    /\ next_uuid = [data_source |-> 0, document |-> 0] /\ files = <<>> /\ qdrant = <<>>
    /\ ret = [op |-> None]
    /\ settings = DefaultSettings /\ usage_records = <<>> /\ providers = {} /\ streams = <<>> /\ calls = <<>>

\* chunk_text up to its loop: defaults, tokenizer, encode (lines 25-39)
ChunkTextEnter ==
    /\ pc = "call"
    /\ tiktoken_ok
    /\ chunk_size' = OrDefault(arg_chunk_size, CHUNK_SIZE)
    /\ chunk_overlap' = OrDefault(arg_chunk_overlap, CHUNK_OVERLAP)
    /\ length' = text.tokens
    /\ start' = 0 /\ chunk_index' = 0 /\ chunks' = <<>>
    /\ pc' = "tokens"
    /\ UNCHANGED <<text, arg_chunk_size, arg_chunk_overlap, tiktoken_ok>>
    /\ UNCHANGED sys_vars

\* the tokenizer cannot be loaded: _chunk_by_chars(text, size*4, overlap*4)
ChunkByCharsEnter ==
    /\ pc = "call"
    /\ ~tiktoken_ok
    /\ chunk_size' = OrDefault(arg_chunk_size, CHUNK_SIZE) * CHARS_PER_TOKEN
    /\ chunk_overlap' = OrDefault(arg_chunk_overlap, CHUNK_OVERLAP) * CHARS_PER_TOKEN
    /\ length' = text.chars
    /\ start' = 0 /\ chunk_index' = 0 /\ chunks' = <<>>
    /\ pc' = "chars"
    /\ UNCHANGED <<text, arg_chunk_size, arg_chunk_overlap, tiktoken_ok>>
    /\ UNCHANGED sys_vars

LoopBody(count_key) ==
    LET e == WindowEnd(start, chunk_size, length)
    IN  /\ chunks' = Append(chunks, MakeChunk(<<>>, start, e, length,
                                             chunk_index, count_key))
        /\ start' = NextStart(e, chunk_overlap, length)
        /\ chunk_index' = NextIndex(chunk_index, e, length)

\* one iteration of chunk_text's while loop (lines 41-57)
ChunkTextStep ==
    /\ pc = "tokens"
    /\ LoopCond(start, length)
    /\ chunk_index < MaxIter
    /\ LoopBody("token_count")
    /\ UNCHANGED <<pc, text, arg_chunk_size, arg_chunk_overlap, tiktoken_ok,
                   length, chunk_size, chunk_overlap>>
    /\ UNCHANGED sys_vars

\* one iteration of _chunk_by_chars' while loop (lines 72-87)
ChunkByCharsStep ==
    /\ pc = "chars"
    /\ LoopCond(start, length)
    /\ chunk_index < MaxIter
    /\ LoopBody("char_count")
    /\ UNCHANGED <<pc, text, arg_chunk_size, arg_chunk_overlap, tiktoken_ok,
                   length, chunk_size, chunk_overlap>>
    /\ UNCHANGED sys_vars

\* the loop condition is false: return chunks
ChunkReturn ==
    /\ pc \in {"tokens", "chars"}
    /\ ~LoopCond(start, length)
    /\ pc' = "done"
    /\ UNCHANGED <<text, arg_chunk_size, arg_chunk_overlap, tiktoken_ok,
                   length, chunk_size, chunk_overlap, start, chunk_index, chunks>>
    /\ UNCHANGED sys_vars

NextChunk ==
    \/ ChunkTextEnter
    \/ ChunkByCharsEnter
    \/ ChunkTextStep
    \/ ChunkByCharsStep
    \/ ChunkReturn

SpecChunk == InitChunk /\ [][NextChunk]_vars

(***************************************************************************)
(* Identifiers                                                            *)
(***************************************************************************)

\* str(uuid): groups of hexadecimal digits separated by "-"
Hex == {"a", "b"}
UUIDs == { <<x, "-", y>> : x \in Hex, y \in Hex }

\* tenants of the vector index: the model ids (rag.py passes str(model_id))
ModelIds == { <<"a", "-", "a">>, <<"a", "-", "b">> }
\* organizations of the callers
OrgIds == { <<"b", "-", "a">> }

\* document ids and data source ids are the n-th uuid4 drawn, n = 1, 2, ...
DocIds == 1..MaxDocs
\* document ids used in direct calls of the vector index adapter
EmbDocIds == 1..MaxEmbDocs
DataSourceIds == 1..MaxDataSources


(***************************************************************************)
(* Vector index adapter (services/embeddings.py)                          *)
(*                                                                         *)
(* qdrant maps the name of every existing collection to its points, a     *)
(* function from point id to [vector, payload].  A call to the index or   *)
(* to the embedding provider can fail; `fault` names the call site that   *)
(* fails during one invocation ("none": no call fails).                   *)
(***************************************************************************)

Restrict(f, S) == [k \in S |-> f[k]]

\* s.replace(a, b) for one-character a and b
Replace(s, a, b) == [i \in DOMAIN s |-> IF s[i] = a THEN b ELSE s[i]]

\* f"org_{organization_id.replace('-', '_')}"
get_collection_name_first_group(organization_id) ==
    <<"o", "r", "g", "_", organization_id[1]>>
get_collection_name(organization_id) ==
    <<"o", "r", "g", "_">> \o Replace(organization_id, "-", "_")

\* the vector the provider returns for a text
Embedding(content) == <<"embedding", content>>

\* f"{document_id}_{i}"
point_id_without_index(document_id, i) == <<document_id, "_", 0>>
point_id(document_id, i) == <<document_id, "_", i>>

\* the payload of the PointStruct built for chunks[i] (keys of the chunk's
\* metadata come last in the dict literal and win)
PointPayload(organization_id, document_id, chunk) ==
    chunk.metadata @@ [content         |-> chunk.content,
                       document_id     |-> document_id,
                       organization_id |-> organization_id]

\* ensure_collection: get_collection, and create_collection if that raised
ensure_collection(q, organization_id, fault) ==
    LET name == get_collection_name(organization_id)
        get_raises == name \notin DOMAIN q \/ fault = "get_collection"
        create_raises == name \in DOMAIN q \/ fault = "create_collection"
    IN  IF ~get_raises THEN [qdrant |-> q, raised |-> None]
        ELSE IF create_raises THEN [qdrant |-> q, raised |-> "IndexUnavailable"]
        ELSE [qdrant |-> (name :> <<>>) @@ q, raised |-> None]

\* the batches `for i in range(0, len(points), batch_size)` walks through
NumBatches(n) == (n + BATCH_SIZE - 1) \div BATCH_SIZE
BatchOf(i) == (i \div BATCH_SIZE) + 1

\* the zero-based positions of the points that are in the index when the
\* batch loop ends: all of them, or those of the batches before the one whose
\* upsert raised (nothing takes an upserted batch back)
WrittenRolledBack(n, failed, fail_batch) ==
    IF failed THEN {} ELSE 0..(n - 1)
Written(n, failed, fail_batch) ==
    { i \in 0..(n - 1) : ~failed \/ BatchOf(i) < fail_batch }

\* generate_embeddings(texts): one get_embeddings call, which is one request
\* with the texts of all n chunks
EmbeddingsRequest(n) == [kind |-> "embeddings", items |-> 0..(n - 1)]
\* qdrant.upsert(points=points[i : i + batch_size]) of the b-th pass
UpsertRequest(n, b) ==
    [kind |-> "upsert", items |-> { i \in 0..(n - 1) : BatchOf(i) = b }]

\* store_chunks; fail_batch is the batch whose upsert raises when
\* fault = "upsert"
store_chunks(q, organization_id, document_id, chks, fault, fail_batch) ==
    IF chks = <<>>
    THEN [qdrant |-> q, raised |-> None, result |-> 0, requests |-> <<>>]
    ELSE
    LET ens  == ensure_collection(q, organization_id, fault)
        name == get_collection_name(organization_id)
        n    == Len(chks)
        \* zero-based i, as enumerate(zip(chunks, embeddings)) counts
        point(i) == [vector  |-> Embedding(chks[i + 1].content),
                     payload |-> PointPayload(organization_id, document_id,
                                              chks[i + 1])]
        failed == fault = "upsert" /\ fail_batch \in 1..NumBatches(n)
        written == Written(n, failed, fail_batch)
        upserted == [id \in { point_id(document_id, i) : i \in written } |->
                        point(id[3])]
        \* the requests sent to the provider and to the index, each with the
        \* positions of the chunks it carries; a request that failed was sent
        sent == <<EmbeddingsRequest(n)>>
                \o [b \in 1..(IF failed THEN fail_batch ELSE NumBatches(n)) |->
                       UpsertRequest(n, b)]
    IN  IF ens.raised # None
        THEN [qdrant |-> ens.qdrant, raised |-> ens.raised, result |-> None,
              requests |-> <<>>]
        ELSE IF fault = "embeddings"
        THEN [qdrant |-> ens.qdrant, raised |-> "ProviderError", result |-> None,
              requests |-> <<EmbeddingsRequest(n)>>]
        ELSE [qdrant |-> [ens.qdrant EXCEPT ![name] = upserted @@ @],
              raised |-> IF failed THEN "IndexUnavailable" ELSE None,
              result |-> IF failed THEN None ELSE n,
              requests |-> sent]

\* the points of a collection that pass the data_source_id filter
\* (`if data_source_ids:` -- None and the empty list add no filter)
Matching(points, data_source_ids) ==
    { id \in DOMAIN points :
        data_source_ids = {} \/ points[id].payload.data_source_id \in data_source_ids }

\* what qdrant.search may return for limit = top_k: the top_k best of the
\* matching points; which ones is decided by the scores
SearchHits(points, top_k, data_source_ids) ==
    LET m == Matching(points, data_source_ids)
        k == Min(top_k, Cardinality(m))
    IN  { h \in SUBSET m : Cardinality(h) = k }

\* the dict search() builds for a hit
HitDict(payload) ==
    [content     |-> payload.content,
     document_id |-> payload.document_id,
     metadata    |-> Restrict(payload, DOMAIN payload \
                               {"content", "document_id", "organization_id"})]

\* the outcomes of search(); hits are the points qdrant.search returned
search(q, organization_id, top_k, data_source_ids, fault) ==
    LET name == get_collection_name(organization_id)
    IN  IF name \notin DOMAIN q \/ fault = "get_collection"
        THEN { [raised |-> None, hits |-> {}, result |-> {}] }
        ELSE IF fault = "embeddings"
        THEN { [raised |-> "ProviderError", hits |-> {}, result |-> None] }
        ELSE IF fault = "search"
        THEN { [raised |-> "IndexUnavailable", hits |-> {}, result |-> None] }
        ELSE { [raised |-> None,
                hits   |-> { q[name][id].payload : id \in h },
                result |-> { HitDict(q[name][id].payload) : id \in h }] :
                  h \in SearchHits(q[name], top_k, data_source_ids) }

\* delete_document_chunks: any exception of qdrant.delete is turned into False
delete_document_chunks(q, organization_id, document_id, fault) ==
    LET name == get_collection_name(organization_id)
        delete_raises == name \notin DOMAIN q \/ fault = "delete"
        kept == { id \in DOMAIN q[name] :
                    q[name][id].payload.document_id # document_id }
    IN  IF delete_raises THEN [qdrant |-> q, result |-> FALSE]
        ELSE [qdrant |-> [q EXCEPT ![name] = Restrict(@, kept)],
              result |-> TRUE]

\* delete_organization_data: drops the collection
delete_organization_data(q, organization_id, fault) ==
    LET name == get_collection_name(organization_id)
    IN  IF fault = "delete_collection" THEN [qdrant |-> q, result |-> FALSE]
        ELSE [qdrant |-> Restrict(q, DOMAIN q \ {name}), result |-> TRUE]

\* ---- the service's operations as steps (SpecEmb) -----------------------

StoreFaults == {"none", "get_collection", "create_collection", "embeddings", "upsert"}
SearchFaults == {"none", "get_collection", "embeddings", "search"}
TopKs == {1, TOP_K_DEFAULT}
\* data_source_ids: None or the empty list ({}), or a list of one id
DataSourceFilters == { {} } \cup { {ds} : ds \in DataSourceIds }

\* the text of a document's file: odd documents fill two windows, even one
EmptyText == [tokens |-> 0, chars |-> 0]
DocText(d) ==
    IF d % 2 = 1
    THEN [tokens |-> CHUNK_SIZE + 1, chars |-> CHARS_PER_TOKEN * (CHUNK_SIZE + 1)]
    ELSE [tokens |-> 1, chars |-> CHARS_PER_TOKEN]

\* the data source a document belongs to
DocSource(d) == ((d - 1) % MaxDataSources) + 1

\* the list the loop of chunk_text / _chunk_by_chars returns when
\* 0 <= overlap < size, in closed form: window k (from 0) starts at
\* k * (size - overlap) and the last window is the first that reaches n
WindowCount(n, size, overlap) ==
    IF n = 0 THEN 0
    ELSE IF n <= size THEN 1
    ELSE 1 + ((n - size + (size - overlap) - 1) \div (size - overlap))
WindowChunks(n, size, overlap, metadata, count_key) ==
    [j \in 1..WindowCount(n, size, overlap) |->
        LET s == (j - 1) * (size - overlap)
        IN  MakeChunk(metadata, s, WindowEnd(s, size, n), n, j - 1, count_key)]

\* a text that fills one window more than an upsert batch holds
LongDocText ==
    [tokens |-> CHUNK_SIZE + BATCH_SIZE * (CHUNK_SIZE - CHUNK_OVERLAP),
     chars  |-> CHARS_PER_TOKEN
                  * (CHUNK_SIZE + BATCH_SIZE * (CHUNK_SIZE - CHUNK_OVERLAP))]

\* the chunks _process_document hands to store_chunks for a document (the
\* long text is cut by the closed form of the loop)
DocChunks(document_id, data_source_id, txt, tiktoken) ==
    LET metadata == [document_id |-> document_id,
                     data_source_id |-> data_source_id,
                     filename |-> "file"]
    IN  IF txt # LongDocText
        THEN chunk_text(txt, NoneArg, NoneArg, metadata, tiktoken)
        ELSE IF tiktoken
        THEN WindowChunks(txt.tokens, CHUNK_SIZE, CHUNK_OVERLAP, metadata,
                          "token_count")
        ELSE WindowChunks(txt.chars, CHUNK_SIZE * CHARS_PER_TOKEN,
                          CHUNK_OVERLAP * CHARS_PER_TOKEN, metadata, "char_count")

InitEmb ==
    /\ qdrant = <<>>
    /\ ret = [op |-> None]
    /\ data_sources = <<>> /\ documents = <<>> /\ ingest_log = <<>>
    /\ next_uuid = [data_source |-> 0, document |-> 0] /\ files = <<>>
    /\ pc = "idle" /\ text = [tokens |-> 0, chars |-> 0]
    /\ arg_chunk_size = NoneArg /\ arg_chunk_overlap = NoneArg
    /\ tiktoken_ok = TRUE
    /\ length = 0 /\ chunk_size = 0 /\ chunk_overlap = 0
    /\ start = 0 /\ chunk_index = 0 /\ chunks = <<>>
    /\ settings = DefaultSettings /\ usage_records = <<>> /\ providers = {} /\ streams = <<>> /\ calls = <<>>

StoreChunks(t, d, txt, fault) ==
    LET chks == DocChunks(d, DocSource(d), txt, TRUE)
        r == store_chunks(qdrant, t, d, chks, fault, 1)
    IN  /\ qdrant' = r.qdrant
        /\ ret' = [op |-> "store_chunks", organization_id |-> t,
                   document_id |-> d, chunks |-> Len(chks), fault |-> fault,
                   raised |-> r.raised, result |-> r.result]
        /\ UNCHANGED <<db_vars, chunk_vars, ext_vars>>

Search(t, top_k, data_source_ids, fault) ==
    /\ \E r \in search(qdrant, t, top_k, data_source_ids, fault) :
          ret' = [op |-> "search", organization_id |-> t, top_k |-> top_k,
                  data_source_ids |-> data_source_ids,
                  raised |-> r.raised, hits |-> r.hits, result |-> r.result]
    /\ UNCHANGED <<qdrant, db_vars, chunk_vars, ext_vars>>

DeleteDocumentChunks(t, d, fault) ==
    LET r == delete_document_chunks(qdrant, t, d, fault)
    IN  /\ qdrant' = r.qdrant
        /\ ret' = [op |-> "delete_document_chunks", organization_id |-> t,
                   document_id |-> d, fault |-> fault,
                   raised |-> None, result |-> r.result]
        /\ UNCHANGED <<db_vars, chunk_vars, ext_vars>>

DeleteOrganizationData(t, fault) ==
    LET r == delete_organization_data(qdrant, t, fault)
    IN  /\ qdrant' = r.qdrant
        /\ ret' = [op |-> "delete_organization_data", organization_id |-> t,
                   raised |-> None, result |-> r.result]
        /\ UNCHANGED <<db_vars, chunk_vars, ext_vars>>

NextEmb ==
    \/ \E t \in ModelIds, d \in EmbDocIds, f \in StoreFaults :
          \E txt \in {EmptyText, DocText(d)} : StoreChunks(t, d, txt, f)
    \/ \E t \in ModelIds, k \in TopKs, ds \in DataSourceFilters, f \in SearchFaults :
          Search(t, k, ds, f)
    \/ \E t \in ModelIds, d \in EmbDocIds, f \in {"none", "delete"} :
          DeleteDocumentChunks(t, d, f)
    \/ \E t \in ModelIds, f \in {"none", "delete_collection"} :
          DeleteOrganizationData(t, f)

SpecEmb == InitEmb /\ [][NextEmb]_vars

(***************************************************************************)
(* Concurrent store_chunks calls for one document (SpecReingest)          *)
(*                                                                         *)
(* store_chunks is a coroutine: other calls run while it waits for the    *)
(* embeddings, and calls in other worker processes run between any two    *)
(* requests to the index.  Each request to the index is one step.         *)
(***************************************************************************)

\* a list of n chunks as the chunker returns them: the k-th chunk (from 0)
\* has its own content and chunk_index k
InputChunks(document_id, n) ==
    [k \in 1..n |->
        [content  |-> <<k - 1, k>>,
         metadata |-> [chunk_index |-> k - 1, token_count |-> 1,
                       document_id |-> document_id,
                       data_source_id |-> DocSource(document_id),
                       filename |-> "file"]]]

\* the lengths of the chunk lists that are ingested again and again: empty,
\* one batch, and one chunk more than a batch
ReingestLengths == {0, 2, BATCH_SIZE + 1}
ReingestTenant == <<"a", "-", "a">>
ReingestDoc == 1
CallIds == 1..MaxCalls

\* the points store_chunks builds from chunks: point id -> PointStruct
BuildPoints(organization_id, document_id, chks) ==
    [id \in { point_id(document_id, i) : i \in 0..(Len(chks) - 1) } |->
        [vector  |-> Embedding(chks[id[3] + 1].content),
         payload |-> PointPayload(organization_id, document_id, chks[id[3] + 1])]]

\* points[i : i + batch_size] of the b-th pass of the loop, b = 1, 2, ...
BatchWithoutFirst(points, document_id, n, b) ==
    Restrict(points, { point_id(document_id, i) :
                         i \in { j \in 1..(n - 1) : BatchOf(j) = b } })
Batch(points, document_id, n, b) ==
    Restrict(points, { point_id(document_id, i) :
                         i \in { j \in 0..(n - 1) : BatchOf(j) = b } })

InitReingest ==
    /\ qdrant = <<>>
    /\ ret = [op |-> None]
    /\ data_sources = <<>> /\ documents = <<>> /\ ingest_log = <<>>
    /\ next_uuid = [data_source |-> 0, document |-> 0] /\ files = <<>>
    /\ pc = "idle" /\ text = EmptyText
    /\ arg_chunk_size = NoneArg /\ arg_chunk_overlap = NoneArg
    /\ tiktoken_ok = TRUE
    /\ length = 0 /\ chunk_size = 0 /\ chunk_overlap = 0
    /\ start = 0 /\ chunk_index = 0 /\ chunks = <<>>
    /\ settings = DefaultSettings /\ usage_records = <<>> /\ providers = {} /\ streams = <<>>
    /\ \E n \in ReingestLengths :
          calls = [c \in CallIds |-> [pc |-> "idle", batch |-> 0, chunks |-> n]]

\* the chunk list every call is given
ReingestChunks == InputChunks(ReingestDoc, calls[1].chunks)

CallRet(raised, result) ==
    [op |-> "store_chunks", organization_id |-> ReingestTenant,
     document_id |-> ReingestDoc, chunks |-> Len(ReingestChunks),
     raised |-> raised, result |-> result]

\* store_chunks is called: `if not chunks: return 0`
CallStart(c) ==
    /\ calls[c].pc \in {"idle", "returned", "raised"}
    /\ IF ReingestChunks = <<>>
       THEN /\ calls' = [calls EXCEPT ![c].pc = "returned"]
            /\ ret' = CallRet(None, 0)
       ELSE /\ calls' = [calls EXCEPT ![c].pc = "get_collection"]
            /\ UNCHANGED ret
    /\ UNCHANGED <<qdrant, db_vars, chunk_vars, settings, usage_records, providers, streams>>

\* ensure_collection: qdrant.get_collection
CallGetCollection(c) ==
    /\ calls[c].pc = "get_collection"
    /\ calls' = [calls EXCEPT ![c].pc =
                    IF get_collection_name(ReingestTenant) \in DOMAIN qdrant
                    THEN "embeddings" ELSE "create_collection"]
    /\ UNCHANGED <<qdrant, ret, db_vars, chunk_vars, settings, usage_records, providers, streams>>

\* ensure_collection: qdrant.create_collection, which raises when another
\* call created the collection in the meantime
CallCreateCollection(c) ==
    LET name == get_collection_name(ReingestTenant)
    IN  /\ calls[c].pc = "create_collection"
        /\ IF name \in DOMAIN qdrant
           THEN /\ calls' = [calls EXCEPT ![c].pc = "raised"]
                /\ ret' = CallRet("IndexUnavailable", None)
                /\ UNCHANGED qdrant
           ELSE /\ calls' = [calls EXCEPT ![c].pc = "embeddings"]
                /\ qdrant' = (name :> <<>>) @@ qdrant
                /\ UNCHANGED ret
        /\ UNCHANGED <<db_vars, chunk_vars, settings, usage_records, providers, streams>>

\* await self.generate_embeddings(texts)
CallEmbeddings(c, fault) ==
    /\ calls[c].pc = "embeddings"
    /\ IF fault = "embeddings"
       THEN /\ calls' = [calls EXCEPT ![c].pc = "raised"]
            /\ ret' = CallRet("ProviderError", None)
       ELSE /\ calls' = [calls EXCEPT ![c].pc = "upsert", ![c].batch = 1]
            /\ UNCHANGED ret
    /\ UNCHANGED <<qdrant, db_vars, chunk_vars, settings, usage_records, providers, streams>>

\* one pass of the batch loop: qdrant.upsert overwrites the points whose ids
\* it is given; `return len(points)` after the last batch
CallUpsert(c) ==
    LET name == get_collection_name(ReingestTenant)
        n    == Len(ReingestChunks)
        pts  == BuildPoints(ReingestTenant, ReingestDoc, ReingestChunks)
        b    == calls[c].batch
    IN  /\ calls[c].pc = "upsert"
        /\ qdrant' = [qdrant EXCEPT ![name] = Batch(pts, ReingestDoc, n, b) @@ @]
        /\ IF b < NumBatches(n)
           THEN /\ calls' = [calls EXCEPT ![c].batch = b + 1]
                /\ UNCHANGED ret
           ELSE /\ calls' = [calls EXCEPT ![c].pc = "returned"]
                /\ ret' = CallRet(None, n)
        /\ UNCHANGED <<db_vars, chunk_vars, settings, usage_records, providers, streams>>

NextReingest ==
    \/ \E c \in CallIds : CallStart(c)
    \/ \E c \in CallIds : CallGetCollection(c)
    \/ \E c \in CallIds : CallCreateCollection(c)
    \/ \E c \in CallIds, f \in {"none", "embeddings"} : CallEmbeddings(c, f)
    \/ \E c \in CallIds : CallUpsert(c)

SpecReingest == InitReingest /\ [][NextReingest]_vars

(***************************************************************************)
(* Ingestion and retrieval pipelines (services/rag.py) and the handlers   *)
(* that call them (api/v1/data_sources.py, api/v1/chat.py)                *)
(***************************************************************************)

\* the content types extract_text has a branch for ("text/plain" stands for
\* every other type that starts with "text/")
Extractable == {"application/pdf",
                "application/vnd.openxmlformats-officedocument.wordprocessingml.document",
                "text/html", "text/plain"}

\* an exception, and str(e)
Exc(type, message) == [type |-> type, message |-> message]
NoExc == Exc(None, None)
StrOfExcEmpty(e) == None
StrOfExc(e) == e.message

\* extract_text: the text of the file, or the exception it raises
extract_text(file_text, content_type, fault) ==
    IF content_type \notin Extractable
    THEN [raised |-> Exc("ValueError", "Unsupported content type: " \o content_type),
          text |-> EmptyText]
    ELSE IF fault = "extract"
    THEN [raised |-> Exc("ExtractionError", "cannot read file"), text |-> EmptyText]
    ELSE [raised |-> NoExc, text |-> file_text]

\* the provider objects: their class and the config they were built from
ProviderKinds == {"openai", "anthropic", "ollama", "vllm", "custom"}
\* a provider_config: the keys the constructors read; None for a key that
\* is not in the dict
NoConfig == [api_key |-> None, base_url |-> None]
\* no provider object
NoProvider == [class |-> None, config |-> NoConfig]
OpenAIProvider(config) == [class |-> "OpenAIProvider", config |-> config]
AnthropicProvider(config) == [class |-> "AnthropicProvider", config |-> config]
OllamaProvider(config) == [class |-> "OllamaProvider", config |-> config]
VLLMProvider(config) == [class |-> "VLLMProvider", config |-> config]

\* the AIModel rows: provider kind and provider_config of every model
AIModels ==
    (<<"a", "-", "a">> :> [provider |-> "openai",
                           provider_config |-> [api_key  |-> "key-of-model",
                                                base_url |-> None]])
    @@ (<<"a", "-", "b">> :> [provider |-> "ollama", provider_config |-> NoConfig])

\* ModelRegistry.get_provider
get_provider(model) ==
    LET config == model.provider_config
    IN  CASE model.provider = "openai"    -> OpenAIProvider(config)
          [] model.provider = "anthropic" -> AnthropicProvider(config)
          [] model.provider = "ollama"    -> OllamaProvider(config)
          [] model.provider = "vllm"      -> VLLMProvider(config)
          [] model.provider = "custom"    -> OpenAIProvider(config)

\* EmbeddingsService.__init__: self.openai, the provider generate_embeddings
\* calls
EmbeddingsProvider == OpenAIProvider(NoConfig)

\* the call site of store_chunks an upload's fault names, and the batch
\* whose upsert fails
StoreFault(fault) == IF fault = "upsert_second_batch" THEN "upsert" ELSE fault
FailBatch(fault) == IF fault = "upsert_second_batch" THEN 2 ELSE 1

\* _process_document: extract, chunk, store; chunk_count is what store_chunks
\* returned.  `produced` is the number of chunks the chunker returned and
\* `embedder` the provider that was asked for the embeddings, if any was.
process_document(q, model_id, document_id, data_source_id, file_text, content_type, fault, tiktoken) ==
    LET ext  == extract_text(file_text, content_type, fault)
        chks == DocChunks(document_id, data_source_id, ext.text, tiktoken)
        st   == store_chunks(q, model_id, document_id, chks,
                             StoreFault(fault), FailBatch(fault))
        asked == /\ chks # <<>>
                 /\ ensure_collection(q, model_id, fault).raised = None
    IN  IF ext.raised # NoExc
        THEN [qdrant |-> q, raised |-> ext.raised, chunk_count |-> 0,
              produced |-> 0, embedder |-> NoProvider, requests |-> <<>>]
        ELSE IF fault = "chunk"
        THEN [qdrant |-> q, raised |-> Exc("ValueError", "disallowed special token"),
              chunk_count |-> 0, produced |-> 0, embedder |-> NoProvider,
              requests |-> <<>>]
        ELSE IF st.raised # None
        THEN [qdrant |-> st.qdrant, raised |-> Exc(st.raised, st.raised),
              chunk_count |-> 0, produced |-> Len(chks),
              embedder |-> IF asked THEN EmbeddingsProvider ELSE NoProvider,
              requests |-> st.requests]
        ELSE [qdrant |-> st.qdrant, raised |-> NoExc,
              chunk_count |-> st.result, produced |-> Len(chks),
              embedder |-> IF asked THEN EmbeddingsProvider ELSE NoProvider,
              requests |-> st.requests]

\* the status upload_document leaves on the row: READY after the try block,
\* ERROR from `except Exception`
StatusAfterOnlyValueError(e) ==
    IF e = NoExc THEN "ready" ELSE IF e.type = "ValueError" THEN "error" ELSE "processing"
StatusAfter(e) == IF e = NoExc THEN "ready" ELSE "error"

\* the uploads tried: (content type, text of the file, failing call site)
UploadInputs(id) ==
    { <<"text/plain", EmptyText, "none">>,
      <<"text/plain", DocText(id), "none">>,
      <<"image/png", DocText(id), "none">>,
      <<"text/plain", DocText(id), "extract">>,
      <<"text/plain", DocText(id), "chunk">>,
      <<"text/plain", DocText(id), "embeddings">>,
      <<"text/plain", DocText(id), "upsert">> }

Init ==
    /\ data_sources = <<>>
    /\ documents = <<>>
    /\ ingest_log = <<>>
    /\ next_uuid = [data_source |-> 0, document |-> 0]
    /\ files = <<>>
    /\ qdrant = <<>>
    /\ ret = [op |-> None]
    /\ pc = "idle" /\ text = EmptyText
    /\ arg_chunk_size = NoneArg /\ arg_chunk_overlap = NoneArg
    /\ tiktoken_ok \in BOOLEAN
    /\ length = 0 /\ chunk_size = 0 /\ chunk_overlap = 0
    /\ start = 0 /\ chunk_index = 0 /\ chunks = <<>>
    /\ settings = DefaultSettings /\ usage_records = <<>> /\ providers = {} /\ streams = <<>> /\ calls = <<>>

\* the DataSource row a handler adds: status and error_message get their
\* column defaults
DataSourceRow(model_id) ==
    [model_id |-> model_id, subscription_id |-> None,
     status |-> "pending", error_message |-> None]

\* POST /models/{model_id}/data-sources
CreateModelDataSource(m) ==
    /\ next_uuid.data_source < MaxDataSources
    /\ LET id == next_uuid.data_source + 1
       IN  /\ data_sources' = (id :> DataSourceRow(m)) @@ data_sources
           /\ next_uuid' = [next_uuid EXCEPT !.data_source = id]
           /\ ret' = [op |-> "create_model_data_source", raised |-> None,
                      result |-> id]
    /\ UNCHANGED <<documents, ingest_log, files, qdrant, chunk_vars, ext_vars>>

\* RAGService.get_data_source: the id of the row found, NoneArg for None
get_data_source_by_id(rows, data_source_id, model_id) ==
    IF data_source_id \in DOMAIN rows THEN data_source_id ELSE NoneArg
get_data_source(rows, data_source_id, model_id) ==
    IF data_source_id \in DOMAIN rows /\ rows[data_source_id].model_id = model_id
    THEN data_source_id ELSE NoneArg

\* RAGService.upload_document
UploadDocument(m, ds, content_type, file_text, fault) ==
    /\ get_data_source(data_sources, ds, m) # NoneArg => next_uuid.document < MaxDocs
    /\ IF get_data_source(data_sources, ds, m) = NoneArg
       THEN \* raise ValueError("Data source not found")
            /\ ret' = [op |-> "upload_document", model_id |-> m,
                       data_source_id |-> ds, fault |-> fault,
                       raised |-> "ValueError",
                       caught |-> NoExc, embedder |-> NoProvider,
                       produced |-> 0, requests |-> <<>>, result |-> None]
            /\ UNCHANGED <<documents, ingest_log, next_uuid, files, qdrant>>
       ELSE LET id   == next_uuid.document + 1
                path == <<m, id>>
                p    == process_document(qdrant, m, id, ds, file_text,
                                         content_type, fault, tiktoken_ok)
                row  == [data_source_id    |-> ds,
                         original_filename |-> "file",
                         content_type      |-> content_type,
                         storage_path      |-> path,
                         status            |-> StatusAfter(p.raised),
                         chunk_count       |-> p.chunk_count,
                         error_message     |-> IF p.raised = NoExc THEN None
                                               ELSE StrOfExc(p.raised)]
            IN  /\ files' = (path :> file_text) @@ files
                /\ documents' = (id :> row) @@ documents
                /\ ingest_log' = (id :> <<"processing", row.status>>) @@ ingest_log
                /\ next_uuid' = [next_uuid EXCEPT !.document = id]
                /\ qdrant' = p.qdrant
                /\ ret' = [op |-> "upload_document", model_id |-> m,
                           data_source_id |-> ds, fault |-> fault,
                           raised |-> None,
                           caught |-> p.raised, embedder |-> p.embedder,
                           produced |-> p.produced, requests |-> p.requests,
                           result |-> [id |-> id, filename |-> "file",
                                       status |-> row.status,
                                       message |-> IF p.raised = NoExc
                                                   THEN <<"Document processed successfully. ",
                                                          p.chunk_count, " chunks created.">>
                                                   ELSE <<"Error processing document: ",
                                                          StrOfExc(p.raised)>>]]
    /\ UNCHANGED <<data_sources, chunk_vars, ext_vars>>

\* RAGService.delete_document
DeleteDocument(d, fault) ==
    /\ IF d \notin DOMAIN documents
          \/ documents[d].data_source_id \notin DOMAIN data_sources
       THEN \* select(Document).join(DataSource) found no row
            /\ ret' = [op |-> "delete_document", document_id |-> d,
                       storage_path |-> None,
                       raised |-> None, result |-> FALSE]
            /\ UNCHANGED <<documents, files, qdrant>>
       ELSE LET doc == documents[d]
                has_model == data_sources[doc.data_source_id].model_id # None
                del == delete_document_chunks(
                           qdrant, data_sources[doc.data_source_id].model_id,
                           d, fault)
            IN  /\ qdrant' = IF has_model THEN del.qdrant ELSE qdrant
                /\ files' = Restrict(files, DOMAIN files \ {doc.storage_path})
                /\ documents' = Restrict(documents, DOMAIN documents \ {d})
                /\ ret' = [op |-> "delete_document", document_id |-> d,
                           storage_path |-> doc.storage_path,
                           raised |-> None, result |-> TRUE]
    /\ UNCHANGED <<data_sources, ingest_log, next_uuid, chunk_vars, ext_vars>>

\* the Document rows that go with a DataSource row when the session deletes
\* it (relationship cascade="all, delete-orphan")
CascadeDocuments(docs, ds) == { d \in DOMAIN docs : docs[d].data_source_id = ds }

\* DELETE /models/{model_id}/data-sources/{data_source_id}
DeleteModelDataSource(m, ds) ==
    /\ IF ds \notin DOMAIN data_sources \/ data_sources[ds].model_id # m
       THEN /\ ret' = [op |-> "delete_model_data_source", model_id |-> m,
                       data_source_id |-> ds, raised |-> "HTTP_404_NOT_FOUND"]
            /\ UNCHANGED <<data_sources, documents>>
       ELSE /\ data_sources' = Restrict(data_sources, DOMAIN data_sources \ {ds})
            /\ documents' = Restrict(documents, DOMAIN documents
                                                  \ CascadeDocuments(documents, ds))
            /\ ret' = [op |-> "delete_model_data_source", model_id |-> m,
                       data_source_id |-> ds, raised |-> None]
    /\ UNCHANGED <<ingest_log, next_uuid, files, qdrant, chunk_vars, ext_vars>>

\* the Subscription rows, and the attributes a CurrentUser object has
SubscriptionIds == {1}
CurrentUserAttrs == {"user", "organization", "is_api_key", "scopes",
                     "org_id", "user_id", "is_platform_admin"}

\* verify_subscription_access: reads user.organization_id
verify_subscription_access(subscription_id) ==
    IF subscription_id \notin SubscriptionIds THEN "HTTP_404_NOT_FOUND"
    ELSE IF "organization_id" \notin CurrentUserAttrs THEN "AttributeError"
    ELSE None

\* DELETE /subscriptions/{subscription_id}/data-sources/{data_source_id}
DeleteSubscriptionDataSource(sub, ds) ==
    LET denied == verify_subscription_access(sub)
        found  == /\ ds \in DOMAIN data_sources
                  /\ data_sources[ds].subscription_id = sub
    IN  /\ IF denied # None \/ ~found
           THEN /\ ret' = [op |-> "delete_subscription_data_source",
                           subscription_id |-> sub, data_source_id |-> ds,
                           raised |-> IF denied # None THEN denied
                                      ELSE "HTTP_404_NOT_FOUND"]
                /\ UNCHANGED <<data_sources, documents>>
           ELSE /\ data_sources' = Restrict(data_sources, DOMAIN data_sources \ {ds})
                /\ documents' = Restrict(documents, DOMAIN documents
                                                      \ CascadeDocuments(documents, ds))
                /\ ret' = [op |-> "delete_subscription_data_source",
                           subscription_id |-> sub, data_source_id |-> ds,
                           raised |-> None]
        /\ UNCHANGED <<ingest_log, next_uuid, files, qdrant, chunk_vars, ext_vars>>

\* the RAGChunk query() builds for a search result; a hit of a point whose
\* payload has no document_id carries NoneArg there
RAGChunk(docs, hit) ==
    [content       |-> hit.content,
     document_id   |-> hit.document_id,
     document_name |-> IF hit.document_id # NoneArg
                          /\ hit.document_id \in DOMAIN docs
                       THEN docs[hit.document_id].original_filename
                       ELSE "Unknown",
     metadata      |-> hit.metadata]

\* the schema's `document_id: UUID`: the field is required and not
\* Optional, so RAGChunk(document_id=None, ...) raises ValidationError
RAGChunkValid(chunk) == chunk.document_id # NoneArg

\* RAGService.query(model_id, query, top_k): the search carries no
\* data source filter; the loop builds one RAGChunk per result
query(q, docs, model_id, top_k, fault) ==
    { LET built == { RAGChunk(docs, h) : h \in r.result }
      IN  [raised     |-> IF r.raised # None THEN r.raised
                          ELSE IF \E c \in built : ~RAGChunkValid(c)
                          THEN "ValidationError" ELSE None,
           collection |-> get_collection_name(model_id),
           hits       |-> r.hits,
           result     |-> IF r.raised = None /\ \A c \in built : RAGChunkValid(c)
                          THEN built ELSE None] :
        r \in search(q, model_id, top_k, {}, fault) }

\* POST /data-sources/query: the request's data_source_ids field is not
\* handed to query()
QueryDocuments(m, top_k, data_source_ids, fault) ==
    /\ \E r \in query(qdrant, documents, m, top_k, fault) :
          ret' = [op |-> "query_documents", model_id |-> m, top_k |-> top_k,
                  data_source_ids |-> data_source_ids, fault |-> fault,
                  raised |-> r.raised, collection |-> r.collection,
                  hits |-> r.hits, result |-> r.result]
    /\ UNCHANGED <<db_vars, qdrant, chunk_vars, ext_vars>>

\* the parameters query() declares besides self
QueryParams == {"model_id", "query", "top_k"}

\* no collection was searched
NoCollection == <<>>

\* the chat endpoints' `rag.query(current_user.org_id, user_query,
\* data_source_ids=data.data_source_ids)`: Python binds the arguments to the
\* parameters first and raises TypeError for a keyword query() does not declare
ChatRagQuery(q, docs, org_id, model_id, data_source_ids, fault) ==
    IF ~({"data_source_ids"} \subseteq QueryParams)
    THEN { [raised |-> "TypeError", collection |-> NoCollection,
            hits |-> {}, result |-> None] }
    ELSE query(q, docs, org_id, TOP_K_DEFAULT, fault)

\* POST /chat/completions with use_rag set: the handler ends in the RAG step's
\* exception when there is one, before anything is committed
CreateCompletionWithRag(org, m, data_source_ids, fault) ==
    /\ \E r \in ChatRagQuery(qdrant, documents, org, m, data_source_ids, fault) :
          /\ r.raised # None
          /\ ret' = [op |-> "create_completion", org_id |-> org, model_id |-> m,
                     use_rag |-> TRUE, data_source_ids |-> data_source_ids,
                     raised |-> r.raised,
                     collection |-> r.collection, hits |-> r.hits]
    /\ UNCHANGED <<db_vars, qdrant, chunk_vars, ext_vars>>

\* POST /chat/completions/stream with use_rag set: generate() turns the RAG
\* step's exception into one error event; its session is never committed
CreateStreamingCompletionWithRag(org, m, data_source_ids, fault) ==
    /\ \E r \in ChatRagQuery(qdrant, documents, org, m, data_source_ids, fault) :
          /\ r.raised # None
          /\ ret' = [op |-> "create_streaming_completion", org_id |-> org,
                     model_id |-> m, use_rag |-> TRUE,
                     data_source_ids |-> data_source_ids, raised |-> None,
                     events |-> <<[type |-> "error", error |-> r.raised]>>,
                     collection |-> r.collection, hits |-> r.hits]
    /\ UNCHANGED <<db_vars, qdrant, chunk_vars, ext_vars>>

Next ==
    \/ \E m \in ModelIds : CreateModelDataSource(m)
    \/ \E m \in ModelIds, ds \in DataSourceIds :
          \E u \in UploadInputs(next_uuid.document + 1) :
             UploadDocument(m, ds, u[1], u[2], u[3])
    \/ \E d \in DocIds, f \in {"none", "delete"} : DeleteDocument(d, f)
    \/ \E m \in ModelIds, ds \in DataSourceIds : DeleteModelDataSource(m, ds)
    \/ \E sub \in SubscriptionIds, ds \in DataSourceIds :
          DeleteSubscriptionDataSource(sub, ds)
    \/ \E m \in ModelIds, k \in TopKs, ds \in DataSourceFilters, f \in SearchFaults :
          QueryDocuments(m, k, ds, f)
    \/ \E o \in OrgIds, m \in ModelIds, ds \in DataSourceFilters :
          CreateCompletionWithRag(o, m, ds, "none")
    \/ \E o \in OrgIds, m \in ModelIds, ds \in DataSourceFilters :
          CreateStreamingCompletionWithRag(o, m, ds, "none")

Spec == Init /\ [][Next]_vars

(***************************************************************************)
(* Ingestion of documents of more than one upsert batch                    *)
(*                                                                         *)
(* SpecIngest: data sources are created, documents uploaded and deleted;   *)
(* the uploads include a text of BATCH_SIZE + 1 windows and an index that  *)
(* fails at the second upsert.                                             *)
(***************************************************************************)

\* the uploads tried: (content type, text of the file, failing call site)
IngestInputs(id) ==
    { <<"text/plain", DocText(id), "none">>,
      <<"text/plain", DocText(id), "upsert">>,
      <<"text/plain", LongDocText, "none">>,
      <<"text/plain", LongDocText, "upsert">>,
      <<"text/plain", LongDocText, "upsert_second_batch">> }

InitIngest ==
    /\ data_sources = <<>>
    /\ documents = <<>>
    /\ ingest_log = <<>>
    /\ next_uuid = [data_source |-> 0, document |-> 0]
    /\ files = <<>>
    /\ qdrant = <<>>
    /\ ret = [op |-> None]
    /\ pc = "idle" /\ text = EmptyText
    /\ arg_chunk_size = NoneArg /\ arg_chunk_overlap = NoneArg
    /\ tiktoken_ok \in BOOLEAN
    /\ length = 0 /\ chunk_size = 0 /\ chunk_overlap = 0
    /\ start = 0 /\ chunk_index = 0 /\ chunks = <<>>
    /\ settings = DefaultSettings
    /\ usage_records = <<>> /\ providers = {} /\ streams = <<>> /\ calls = <<>>

NextIngest ==
    \/ \E m \in ModelIds : CreateModelDataSource(m)
    \/ \E m \in ModelIds, ds \in DataSourceIds :
          \E u \in IngestInputs(next_uuid.document + 1) :
             UploadDocument(m, ds, u[1], u[2], u[3])
    \/ \E d \in DocIds, f \in {"none", "delete"} : DeleteDocument(d, f)

SpecIngest == InitIngest /\ [][NextIngest]_vars

(***************************************************************************)
(* Queries over an index that holds more than the database knows           *)
(*                                                                         *)
(* SpecQuery: the vector index is a service of its own.  It starts with    *)
(* any part of a pool of points: points of documents that have a row,      *)
(* points whose row is gone, and a point written without a document_id     *)
(* (search() and query() read that key with .get).                         *)
(***************************************************************************)

QueryModel == <<"a", "-", "a">>
QueryDocIds == {1, 2}

\* a point whose payload has no document_id and no data_source_id
ForeignPoint ==
    [vector  |-> Embedding(<<0, 0>>),
     payload |-> [content |-> <<0, 0>>, organization_id |-> QueryModel,
                  document_id |-> NoneArg, data_source_id |-> NoneArg,
                  chunk_index |-> 0, token_count |-> 1, filename |-> "file"]]

\* the points the index may hold for QueryModel
PointPool ==
    BuildPoints(QueryModel, 1, InputChunks(1, 1))
    @@ BuildPoints(QueryModel, 2, InputChunks(2, 1))
    @@ (point_id(NoneArg, 0) :> ForeignPoint)

\* the Document row of an ingested document
ReadyRow(d) ==
    [data_source_id    |-> 1,
     original_filename |-> "file",
     content_type      |-> "text/plain",
     storage_path      |-> <<QueryModel, d>>,
     status            |-> "ready",
     chunk_count       |-> 1,
     error_message     |-> None]

InitQuery ==
    /\ data_sources = (1 :> DataSourceRow(QueryModel))
    /\ \E present \in SUBSET QueryDocIds :
          /\ documents = [d \in present |-> ReadyRow(d)]
          /\ files = [path \in { <<QueryModel, d>> : d \in present } |-> DocText(2)]
    /\ ingest_log = [d \in QueryDocIds |-> <<"processing", "ready">>]
    /\ next_uuid = [data_source |-> 1, document |-> 2]
    /\ \E held \in SUBSET (DOMAIN PointPool) :
          qdrant = (get_collection_name(QueryModel) :> Restrict(PointPool, held))
    /\ ret = [op |-> None]
    /\ pc = "idle" /\ text = EmptyText
    /\ arg_chunk_size = NoneArg /\ arg_chunk_overlap = NoneArg
    /\ tiktoken_ok = TRUE
    /\ length = 0 /\ chunk_size = 0 /\ chunk_overlap = 0
    /\ start = 0 /\ chunk_index = 0 /\ chunks = <<>>
    /\ settings = DefaultSettings
    /\ usage_records = <<>> /\ providers = {} /\ streams = <<>> /\ calls = <<>>

NextQuery ==
    \/ \E m \in ModelIds, k \in TopKs, ds \in DataSourceFilters, f \in SearchFaults :
          QueryDocuments(m, k, ds, f)
    \/ \E d \in QueryDocIds, f \in {"none", "delete"} : DeleteDocument(d, f)

SpecQuery == InitQuery /\ [][NextQuery]_vars

(***************************************************************************)
(* Completion providers (providers/*.py, services/model_registry.py)      *)
(*                                                                         *)
(* SpecProv: provider objects are constructed and then used.  What the    *)
(* remote endpoint answers is an input of each call.                      *)
(***************************************************************************)

\* Python's `x or default` for an optional string
OrElse(x, default) == IF x = None THEN default ELSE x

ProviderConfigs == {NoConfig, [api_key |-> "key", base_url |-> "http://host"]}

SettingsValues ==
    {DefaultSettings,
     [OPENAI_API_KEY    |-> "sk-openai",
      ANTHROPIC_API_KEY |-> "sk-ant",
      OLLAMA_BASE_URL   |-> "http://localhost:11434",
      VLLM_BASE_URL     |-> "http://vllm"]}

\* the api key a provider object works with (__init__ of each class)
ProviderApiKey(p, st) ==
    CASE p.class = "OpenAIProvider"    -> OrElse(p.config.api_key, st.OPENAI_API_KEY)
      [] p.class = "AnthropicProvider" -> OrElse(p.config.api_key, st.ANTHROPIC_API_KEY)
      [] p.class = "VLLMProvider"      -> OrElse(p.config.api_key, "EMPTY")
      [] p.class = "OllamaProvider"    -> None

\* the base URL a provider object works with; None for OpenAIProvider
\* means the client's own default, AnthropicProvider reads none
ProviderBaseUrl(p, st) ==
    CASE p.class = "OpenAIProvider"    -> p.config.base_url
      [] p.class = "AnthropicProvider" -> None
      [] p.class = "OllamaProvider"    -> OrElse(p.config.base_url, st.OLLAMA_BASE_URL)
      [] p.class = "VLLMProvider"      -> OrElse(p.config.base_url, st.VLLM_BASE_URL)

\* the classes whose __init__ builds an SDK client from the api key
SdkClasses == {"OpenAIProvider", "AnthropicProvider"}

\* get_provider(model) for a model of the given kind and provider_config.
\* None of the constructors checks its parameters; an SDK client given no
\* key may refuse to be built (client_rejects) or may be built and fail at
\* the first request.
construct(kind, config, st, client_rejects) ==
    LET p == get_provider([provider |-> kind, provider_config |-> config])
    IN  IF p.class \in SdkClasses /\ ProviderApiKey(p, st) = None /\ client_rejects
        THEN [raised |-> "ClientError", result |-> NoProvider]
        ELSE [raised |-> None, result |-> p]

\* every provider object get_provider can build
ProviderObjects ==
    { get_provider([provider |-> k, provider_config |-> c]) :
        k \in ProviderKinds, c \in ProviderConfigs }

\* the texts handed to get_embeddings
TextLists == UNION { [1..n -> {"t1", "t2"}] : n \in 0..MaxTexts }

Vectors(texts) == [i \in DOMAIN texts |-> Embedding(texts[i])]

\* OpenAIProvider.get_embeddings: one request carries the whole list; the
\* endpoint decides what a request with an empty list gets
openai_get_embeddings(api_key, texts, endpoint) ==
    IF api_key = None
    THEN { [raised |-> "AuthenticationError", result |-> None] }
    ELSE IF endpoint = "error"
    THEN { [raised |-> "ProviderError", result |-> None] }
    ELSE IF texts = <<>>
    THEN { [raised |-> "BadRequestError", result |-> None],
           [raised |-> None, result |-> <<>>] }
    ELSE { [raised |-> None, result |-> Vectors(texts)] }

\* OllamaProvider.get_embeddings: one request per text, in order
ollama_get_embeddings(texts, endpoint) ==
    IF texts # <<>> /\ endpoint = "error"
    THEN { [raised |-> "ProviderError", result |-> None] }
    ELSE { [raised |-> None, result |-> Vectors(texts)] }

\* get_embeddings of each class; AnthropicProvider and VLLMProvider hand the
\* call to a new OpenAIProvider({})
get_embeddings(p, texts, endpoint, st) ==
    CASE p.class = "OpenAIProvider" ->
            openai_get_embeddings(ProviderApiKey(p, st), texts, endpoint)
      [] p.class = "OllamaProvider" -> ollama_get_embeddings(texts, endpoint)
      [] p.class \in {"AnthropicProvider", "VLLMProvider"} ->
            openai_get_embeddings(
                ProviderApiKey(OpenAIProvider(NoConfig), st), texts, endpoint)

\* what the round trip of health_check meets
RoundTrips == {"ok", "http_500", "raises"}

\* health_check: True when the round trip succeeded (status 200 for the
\* httpx classes), False from `except Exception`
health_check_propagates(p, roundtrip, st) ==
    IF (p.class \in {"OllamaProvider", "VLLMProvider"} /\ ProviderBaseUrl(p, st) = None)
       \/ roundtrip = "raises"
    THEN [raised |-> "Exception", result |-> None]
    ELSE [raised |-> None, result |-> roundtrip = "ok"]
health_check(p, roundtrip, st) ==
    IF p.class \in {"OllamaProvider", "VLLMProvider"} /\ ProviderBaseUrl(p, st) = None
    THEN [raised |-> None, result |-> FALSE]
    ELSE [raised |-> None, result |-> roundtrip = "ok"]

\* ModelRegistry.check_health
check_health(model_id, roundtrip, st, client_rejects) ==
    IF model_id \notin DOMAIN AIModels
    THEN [healthy |-> FALSE, error |-> "Model not found"]
    ELSE LET model == AIModels[model_id]
             c == construct(model.provider, model.provider_config, st, client_rejects)
             h == health_check(c.result, roundtrip, st)
         IN  IF c.raised # None THEN [healthy |-> FALSE, error |-> c.raised]
             ELSE IF h.raised # None THEN [healthy |-> FALSE, error |-> h.raised]
             ELSE [healthy |-> h.result, error |-> None]

\* count_tokens: tiktoken in OpenAIProvider, int(len(text.split()) * 1.3)
\* in the other classes
count_tokens(class, txt) ==
    IF class = "OpenAIProvider" THEN txt.tokens
    ELSE (13 * txt.words) \div 10

\* the texts handed to count_tokens: their words and their tiktoken tokens
TokenTexts ==
    { [words |-> w, tokens |-> IF w = 0 THEN 0 ELSE w + 1] : w \in 0..MaxWords }

\* how a stream() call ends: the consumer read everything, stopped reading
\* after some fragments, or an exception came up while streaming
StreamExits == {"exhausted", "abandoned", "failed"}

\* the classes whose stream() holds the HTTP stream in an `async with`
ScopedStreamClasses == {"AnthropicProvider", "OllamaProvider", "VLLMProvider"}

\* the state stream() leaves its handle in.  OpenAIProvider.stream iterates
\* the handle with no `async with` and no finally: when the generator ends
\* early the handle is open until the garbage collector gets to it.
StreamRelease(class, exit) ==
    IF class \in ScopedStreamClasses \/ exit = "exhausted"
    THEN {"closed"}
    ELSE {"open", "closed"}

\* (fragments of the response, exit, fragments delivered before the exit)
StreamRuns ==
    { r \in (1..MaxFragments) \X StreamExits \X (0..MaxFragments) :
        CASE r[2] = "exhausted" -> r[3] = r[1]
          [] r[2] = "abandoned" -> r[3] >= 1 /\ r[3] <= r[1]
          [] r[2] = "failed"    -> r[3] <= r[1] }

InitProv ==
    /\ qdrant = <<>>
    /\ ret = [op |-> None]
    /\ data_sources = <<>> /\ documents = <<>> /\ ingest_log = <<>>
    /\ next_uuid = [data_source |-> 0, document |-> 0] /\ files = <<>>
    /\ pc = "idle" /\ text = EmptyText
    /\ arg_chunk_size = NoneArg /\ arg_chunk_overlap = NoneArg
    /\ tiktoken_ok = TRUE
    /\ length = 0 /\ chunk_size = 0 /\ chunk_overlap = 0
    /\ start = 0 /\ chunk_index = 0 /\ chunks = <<>>
    /\ settings \in SettingsValues
    /\ usage_records = <<>> /\ providers = {} /\ streams = <<>> /\ calls = <<>>

prov_unchanged == <<qdrant, db_vars, chunk_vars, settings, usage_records, calls>>

\* ModelRegistry.get_provider for a model row
ConstructProvider(kind, config, client_rejects) ==
    LET c == construct(kind, config, settings, client_rejects)
    IN  /\ c.raised = None =>
              (c.result \in providers \/ Cardinality(providers) < MaxProviders)
        /\ providers' = IF c.raised = None THEN providers \cup {c.result}
                        ELSE providers
        /\ ret' = [op |-> "construct", kind |-> kind, raised |-> c.raised,
                   result |-> c.result]
        /\ UNCHANGED <<streams, prov_unchanged>>

GetEmbeddings(p, texts, endpoint) ==
    /\ p \in providers
    /\ \E r \in get_embeddings(p, texts, endpoint, settings) :
          ret' = [op |-> "get_embeddings", provider |-> p, texts |-> texts,
                  endpoint |-> endpoint, raised |-> r.raised, result |-> r.result]
    /\ UNCHANGED <<providers, streams, prov_unchanged>>

HealthCheck(p, roundtrip) ==
    LET r == health_check(p, roundtrip, settings)
    IN  /\ p \in providers
        /\ ret' = [op |-> "health_check", class |-> p.class,
                   roundtrip |-> roundtrip, raised |-> r.raised,
                   result |-> r.result]
        /\ UNCHANGED <<providers, streams, prov_unchanged>>

CheckHealth(model_id, roundtrip, client_rejects) ==
    /\ ret' = [op |-> "check_health", model_id |-> model_id,
               roundtrip |-> roundtrip, raised |-> None,
               result |-> check_health(model_id, roundtrip, settings,
                                       client_rejects).healthy]
    /\ UNCHANGED <<providers, streams, prov_unchanged>>

CountTokens(p, txt) ==
    /\ p \in providers
    /\ ret' = [op |-> "count_tokens", class |-> p.class, text |-> txt,
               raised |-> None, result |-> count_tokens(p.class, txt)]
    /\ UNCHANGED <<providers, streams, prov_unchanged>>

\* one stream() call from its first line to the end of its generator
Stream(p, run) ==
    /\ p \in providers
    /\ Len(streams) < MaxStreams
    /\ IF run[2] = "failed" /\ run[3] = 0
       THEN \* the request failed: no handle was acquired
            /\ ret' = [op |-> "stream", class |-> p.class, exit |-> run[2],
                       delivered |-> 0, handle |-> None]
            /\ UNCHANGED streams
       ELSE \E h \in StreamRelease(p.class, run[2]) :
               /\ streams' = Append(streams, h)
               /\ ret' = [op |-> "stream", class |-> p.class, exit |-> run[2],
                          delivered |-> run[3], handle |-> h]
    /\ UNCHANGED <<providers, prov_unchanged>>

NextProv ==
    \/ \E kind \in ProviderKinds, config \in ProviderConfigs, rej \in BOOLEAN :
          ConstructProvider(kind, config, rej)
    \/ \E p \in ProviderObjects, texts \in TextLists, e \in {"ok", "error"} :
          GetEmbeddings(p, texts, e)
    \/ \E p \in ProviderObjects, rt \in RoundTrips : HealthCheck(p, rt)
    \/ \E m \in ModelIds \cup OrgIds, rt \in RoundTrips, rej \in BOOLEAN :
          CheckHealth(m, rt, rej)
    \/ \E p \in ProviderObjects, run \in StreamRuns : Stream(p, run)
    \/ \E p \in ProviderObjects, txt \in TokenTexts : CountTokens(p, txt)

SpecProv == InitProv /\ [][NextProv]_vars

(***************************************************************************)
(* Chat completions and usage records (api/v1/chat.py,                    *)
(* services/usage_tracker.py)                                              *)
(*                                                                         *)
(* SpecChat: requests without RAG by an organization that has an active   *)
(* subscription to one of the two models.  A text is the pair of its word *)
(* count and its tiktoken count.                                           *)
(***************************************************************************)

\* " ".join(m.content for m in data.messages) of the request
Prompts == { [words |-> 1, tokens |-> 2], [words |-> 4, tokens |-> 5] }

\* one fragment of a streamed response, and full_content after k of them
Fragment == [words |-> 1, tokens |-> 1]
FullContent(k) == [words |-> k * Fragment.words, tokens |-> k * Fragment.tokens]

\* the usage figures a provider's blocking response reports
ReportedTokens == {0, 3}

\* the ModelPricing rows: the second model is sold by subscription, which
\* includes one request per period and sets no token limit
ModelPricing ==
    (<<"a", "-", "b">> :> [pricing_type |-> "subscription",
                           monthly_subscription_price |-> 10,
                           included_requests |-> 1, included_tokens |-> 0])

\* the Subscription rows seen by the chat endpoints
Subscriptions ==
    (1 :> [organization_id |-> <<"b", "-", "a">>,
           model_id |-> <<"a", "-", "b">>, status |-> "active"])

\* verify_model_access of chat.py: the id of the organization's active
\* subscription to the model, NoneArg when there is none
chat_subscription(organization_id, model_id) ==
    LET found == { id \in DOMAIN Subscriptions :
                     /\ Subscriptions[id].organization_id = organization_id
                     /\ Subscriptions[id].model_id = model_id
                     /\ Subscriptions[id].status = "active" }
    IN  IF found = {} THEN NoneArg ELSE CHOOSE id \in found : TRUE

\* verify_model_access of chat.py: the HTTPException it raises, if any
chat_verify_model_access(organization_id, model_id) ==
    IF model_id \notin DOMAIN AIModels THEN "HTTP_404_NOT_FOUND"
    ELSE IF /\ model_id \in DOMAIN ModelPricing
            /\ ModelPricing[model_id].monthly_subscription_price > 0
            /\ chat_subscription(organization_id, model_id) = NoneArg
         THEN "HTTP_403_FORBIDDEN"
         ELSE None

\* UsageTracker.get_subscription_usage: the totals over the usage records of
\* the subscription (every record lies in the current period)
RECURSIVE get_subscription_usage(_, _)
get_subscription_usage(records, subscription_id) ==
    IF records = <<>> THEN [total_tokens |-> 0, total_requests |-> 0]
    ELSE LET u    == Head(records)
             rest == get_subscription_usage(Tail(records), subscription_id)
         IN  IF u.subscription_id # subscription_id THEN rest
             ELSE [total_tokens |-> rest.total_tokens + u.input_tokens
                                      + u.output_tokens,
                   total_requests |-> rest.total_requests + u.request_count]

\* UsageTracker.check_usage_limits: the "allowed" entry of its result
check_usage_limits(records, subscription_id) ==
    IF subscription_id \notin DOMAIN Subscriptions THEN FALSE
    ELSE LET model_id == Subscriptions[subscription_id].model_id
             usage    == get_subscription_usage(records, subscription_id)
         IN  IF model_id \notin DOMAIN ModelPricing THEN TRUE
             ELSE LET pricing == ModelPricing[model_id]
                  IN  ~ /\ pricing.pricing_type = "subscription"
                        /\ \/ /\ pricing.included_tokens > 0
                              /\ usage.total_tokens >= pricing.included_tokens
                           \/ /\ pricing.included_requests > 0
                              /\ usage.total_requests >= pricing.included_requests

\* UsageTracker.record_usage: the row it adds and commits
record_usage(organization_id, model_id, input_tokens, output_tokens, subscription_id) ==
    [organization_id |-> organization_id, subscription_id |-> subscription_id,
     model_id |-> model_id, input_tokens |-> input_tokens,
     output_tokens |-> output_tokens, request_count |-> 1]

InitChat ==
    /\ qdrant = <<>>
    /\ ret = [op |-> None]
    /\ data_sources = <<>> /\ documents = <<>> /\ ingest_log = <<>>
    /\ next_uuid = [data_source |-> 0, document |-> 0] /\ files = <<>>
    /\ pc = "idle" /\ text = EmptyText
    /\ arg_chunk_size = NoneArg /\ arg_chunk_overlap = NoneArg
    /\ tiktoken_ok = TRUE
    /\ length = 0 /\ chunk_size = 0 /\ chunk_overlap = 0
    /\ start = 0 /\ chunk_index = 0 /\ chunks = <<>>
    /\ settings = DefaultSettings
    /\ usage_records = <<>> /\ providers = {} /\ streams = <<>> /\ calls = <<>>

chat_unchanged == <<qdrant, db_vars, chunk_vars, settings, providers, streams, calls>>

\* POST /chat/completions with use_rag unset.  `completes` says whether
\* provider.complete returned; the usage figures are the provider's.
\* `allowed` is what check_usage_limits reports for the subscription when
\* the request arrives; the handler asks for it only when there is one.
CreateCompletion(org, m, completes, input_tokens, output_tokens) ==
    LET denied == chat_verify_model_access(org, m)
        subscription == chat_subscription(org, m)
        allowed == check_usage_limits(usage_records, subscription)
        usage  == record_usage(org, m, input_tokens, output_tokens, subscription)
        raised == IF denied # None THEN denied
                  ELSE IF subscription # NoneArg /\ ~allowed
                       THEN "HTTP_429_TOO_MANY_REQUESTS"
                  ELSE IF ~completes THEN "ProviderError" ELSE None
    IN  /\ Len(usage_records) < MaxUsage
        /\ usage_records' = IF raised = None THEN Append(usage_records, usage)
                            ELSE usage_records
        /\ ret' = [op |-> "create_completion", org_id |-> org, model_id |-> m,
                   use_rag |-> FALSE, data_source_ids |-> None,
                   raised |-> raised,
                   subscription_id |-> subscription, allowed |-> allowed,
                   delivered |-> IF raised = None THEN 1 ELSE 0,
                   exit |-> IF raised = None THEN "returned" ELSE "raised",
                   usage_before |-> Len(usage_records)]
        /\ UNCHANGED chat_unchanged

\* the events generate() has yielded when it ends: one content event per
\* fragment delivered; then usage and done when the provider's stream was
\* exhausted, one error event when an exception came up, and nothing when
\* the consumer stopped reading (the generator is closed at its yield).
\* An exception comes up in the loop over provider.stream or, with every
\* fragment delivered, in the steps up to the commit.
StreamEventsUsageBeforeError(run, input_tokens, output_tokens) ==
    [i \in 1..run[3] |-> [type |-> "content"]]
    \o << [type |-> "usage", input_tokens |-> input_tokens,
           output_tokens |-> output_tokens] >>
    \o CASE run[2] = "exhausted" -> << [type |-> "done"] >>
         [] run[2] = "failed"    -> << [type |-> "error"] >>
         [] run[2] = "abandoned" -> << >>
StreamEvents(run, input_tokens, output_tokens) ==
    [i \in 1..run[3] |-> [type |-> "content"]]
    \o CASE run[2] = "exhausted" ->
                << [type |-> "usage", input_tokens |-> input_tokens,
                    output_tokens |-> output_tokens], [type |-> "done"] >>
         [] run[2] = "failed"    -> << [type |-> "error"] >>
         [] run[2] = "abandoned" -> << >>

\* POST /chat/completions/stream with use_rag unset, from the request to the
\* end of generate().  record_usage stands after the `async for` over
\* provider.stream: it runs only when that loop ended normally.
\* committed_after is the number of events that had been yielded when
\* record_usage and stream_db.commit() returned.
\* The handler does not ask check_usage_limits; `allowed` is what it would
\* report for the subscription when the request arrives.
CreateStreamingCompletion(org, m, prompt, run) ==
    LET denied == chat_verify_model_access(org, m)
        subscription == chat_subscription(org, m)
        allowed == check_usage_limits(usage_records, subscription)
        class  == get_provider(AIModels[m]).class
        input_tokens  == count_tokens(class, prompt)
        output_tokens == count_tokens(class, FullContent(run[3]))
        usage  == record_usage(org, m, input_tokens, output_tokens, subscription)
    IN  /\ Len(usage_records) < MaxUsage
        /\ IF denied # None
           THEN /\ ret' = [op |-> "create_streaming_completion", org_id |-> org,
                           model_id |-> m, use_rag |-> FALSE,
                           data_source_ids |-> None, raised |-> denied,
                           subscription_id |-> subscription, allowed |-> allowed,
                           delivered |-> 0, exit |-> "raised", events |-> <<>>,
                           committed_after |-> NoneArg,
                           usage_before |-> Len(usage_records)]
                /\ UNCHANGED usage_records
           ELSE /\ usage_records' = IF run[2] = "exhausted"
                                    THEN Append(usage_records, usage)
                                    ELSE usage_records
                /\ ret' = [op |-> "create_streaming_completion", org_id |-> org,
                           model_id |-> m, use_rag |-> FALSE,
                           data_source_ids |-> None, raised |-> None,
                           subscription_id |-> subscription, allowed |-> allowed,
                           delivered |-> run[3], exit |-> run[2],
                           events |-> StreamEvents(run, input_tokens, output_tokens),
                           committed_after |-> IF run[2] = "exhausted"
                                               THEN run[3] ELSE NoneArg,
                           usage_before |-> Len(usage_records)]
        /\ UNCHANGED chat_unchanged

NextChat ==
    \/ \E o \in OrgIds, m \in ModelIds \cup OrgIds, c \in BOOLEAN :
          \E i \in ReportedTokens, t \in ReportedTokens :
             CreateCompletion(o, m, c, i, t)
    \/ \E o \in OrgIds, m \in ModelIds \cup OrgIds, q \in Prompts :
          \E run \in StreamRuns : CreateStreamingCompletion(o, m, q, run)

SpecChat == InitChat /\ [][NextChat]_vars

(***************************************************************************)
(* Claims about the chunker, checked under SpecChunk                      *)
(***************************************************************************)

\* the call's arguments satisfy 0 <= chunk_overlap < chunk_size
ValidArgs ==
    /\ arg_chunk_size # NoneArg
    /\ arg_chunk_overlap # NoneArg
    /\ 0 <= arg_chunk_overlap
    /\ arg_chunk_overlap < arg_chunk_size

\* C6: chunk_text terminates for every text and every chunk_size and overlap
\* with 0 <= overlap < chunk_size, overlap = 0 included.  The loop runs while
\* start < len(tokens), so it terminates exactly when every iteration moves
\* start forward; stated as: each iteration of a call with valid arguments
\* leaves start greater than it found it.
C6_EveryIterationAdvances ==
    [][(ChunkTextStep /\ ValidArgs) => start' > start]_vars

\* the span of positions chunk k was cut from
Span(k) == chunks[k].content

\* C7: the token spans of the chunks chunk_text returns cover every token
\* position with no gap: the first starts at 0, each starts at or before the
\* end of the one before, the last ends at the token count.
C7_SpansCoverTokens ==
    (pc = "done" /\ tiktoken_ok /\ (ValidArgs \/ arg_chunk_size = NoneArg)) =>
        /\ length = text.tokens
        /\ (length = 0) = (chunks = <<>>)
        /\ length > 0 => /\ Span(1)[1] = 0
                         /\ Span(Len(chunks))[2] = length
        /\ \A k \in 2..Len(chunks) : Span(k)[1] <= Span(k - 1)[2]
        /\ \A p \in 0..(length - 1) :
              \E k \in 1..Len(chunks) : Span(k)[1] <= p /\ p < Span(k)[2]

\* a call that returned three or more overlapping chunks
C7_Witness ==
    /\ pc = "done" /\ tiktoken_ok /\ ValidArgs
    /\ Len(chunks) >= 3
    /\ Span(2)[1] < Span(1)[2]

\* C8: the k-th chunk (from 0) returned by chunk_text, and by the character
\* fallback _chunk_by_chars, carries chunk_index = k.
C8_ChunkIndexIsPosition ==
    pc = "done" =>
        \A k \in 1..Len(chunks) : chunks[k].metadata.chunk_index = k - 1

\* the character fallback returned two or more chunks
C8_Witness ==
    /\ pc = "done" /\ ~tiktoken_ok
    /\ Len(chunks) >= 2
    /\ chunks[2].metadata.char_count > 0

\* C23: in a chunk_text call with 0 <= overlap < chunk_size (0 included) the
\* loop's start is never negative, every chunk after the first starts at the
\* end of the one before minus the overlap, every chunk holds at most
\* chunk_size tokens, and token_count is the number of tokens of its span.
C23_WindowSlidesByOverlap ==
    (pc \in {"tokens", "done"} /\ tiktoken_ok /\ ValidArgs) =>
        /\ start >= 0
        /\ \A k \in 1..Len(chunks) :
              /\ Span(k)[2] - Span(k)[1] <= arg_chunk_size
              /\ chunks[k].metadata.token_count = Span(k)[2] - Span(k)[1]
        /\ \A k \in 2..Len(chunks) :
              Span(k)[1] = Span(k - 1)[2] - arg_chunk_overlap

(***************************************************************************)
(* Claims about the vector index adapter, checked under SpecEmb           *)
(***************************************************************************)

Collection(t) == get_collection_name(t)
HasCollection(t) == Collection(t) \in DOMAIN qdrant
PointsIn(t) == IF HasCollection(t) THEN DOMAIN qdrant[Collection(t)] ELSE {}

\* C1: a search scoped to tenant A never returns a point that store_chunks
\* wrote for another tenant B, after any sequence of store_chunks,
\* delete_document_chunks and delete_organization_data calls; distinct UUID
\* strings get distinct collection names.
C1_TenantIsolation ==
    /\ \A a \in UUIDs, b \in UUIDs :
          a # b => get_collection_name(a) # get_collection_name(b)
    /\ \A t \in ModelIds : \A id \in PointsIn(t) :
          qdrant[Collection(t)][id].payload.organization_id = t
    /\ ret.op = "search" =>
          \A h \in ret.hits : h.organization_id = ret.organization_id

\* a search returned points while another tenant holds points too
C1_Witness ==
    /\ ret.op = "search"
    /\ ret.hits # {}
    /\ \E t \in ModelIds : t # ret.organization_id /\ PointsIn(t) # {}

\* C9: a search against a tenant with no ingested documents (collection never
\* created, all documents deleted, or only zero-chunk uploads) returns an
\* empty list and never raises, also when the embedding provider fails.
C9_EmptyTenantSearchReturnsEmpty ==
    (ret.op = "search" /\ PointsIn(ret.organization_id) = {}) =>
        (ret.raised = None /\ ret.result = {})

\* C10: once delete_document_chunks(tenant, d) has returned, a search for
\* that tenant returns no chunk whose document_id is d.
C10_DeletedNeverReturned ==
    ret.op = "delete_document_chunks" =>
        \A k \in TopKs, ds \in DataSourceFilters :
            \A r \in search(qdrant, ret.organization_id, k, ds, "none") :
                \A h \in r.hits : h.document_id # ret.document_id

\* C24: a failure of the index is reported as a failure: store_chunks raises
\* when an upsert failed, and delete_document_chunks raises when
\* qdrant.delete failed.
C24_IndexFailureIsReported ==
    /\ (ret.op = "store_chunks" /\ ret.fault = "upsert" /\ ret.chunks > 0)
          => ret.raised # None
    /\ (ret.op = "delete_document_chunks" /\ ret.fault = "delete")
          => ret.raised # None

(***************************************************************************)
(* Claims about ingestion and the chat endpoints, checked under Spec      *)
(***************************************************************************)

\* C2: a chat request with RAG enabled for model M searches the collection
\* keyed by M's model id, the one documents uploaded to M's data sources
\* were upserted into.
C2_ChatSearchesModelCollection ==
    (ret.op \in {"create_completion", "create_streaming_completion"}
        /\ ret.use_rag) =>
        ret.collection = get_collection_name(ret.model_id)

Terminal == {"ready", "error"}

C3_State ==
    /\ \A d \in DOMAIN ingest_log :
          /\ Len(ingest_log[d]) = 2
          /\ ingest_log[d][1] = "processing"
          /\ ingest_log[d][2] \in Terminal
    /\ \A d \in DOMAIN documents : documents[d].status = ingest_log[d][2]
    /\ (ret.op = "upload_document" /\ ret.raised = None) =>
          /\ ret.result.status \in Terminal
          /\ ret.result.id \in DOMAIN documents
          /\ documents[ret.result.id].status = ret.result.status

C3_Step ==
    \A d \in DOMAIN documents :
        (d \in DOMAIN documents' /\ documents[d].status \in Terminal) =>
            documents'[d].status = documents[d].status

\* C3: a Document starts in processing and is moved to exactly one of ready
\* and error, once; a Document in ready or error never changes status; no
\* upload_document call returns while its Document is processing.
C3_StatusMachine == []C3_State /\ [][C3_Step]_vars

\* an upload returned with its Document moved from processing to ready
C3_Witness ==
    /\ ret.op = "upload_document" /\ ret.raised = None
    /\ ingest_log[ret.result.id] = <<"processing", "ready">>
    /\ documents[ret.result.id].chunk_count > 0

\* C4: when extraction, chunking, embedding generation or the vector upsert
\* raises, upload_document does not raise: the Document gets status error and
\* the exception's message, and the response carries status error.
C4_FailureBecomesErrorStatus ==
    (ret.op = "upload_document" /\ ret.caught # NoExc) =>
        /\ ret.raised = None
        /\ ret.result.status = "error"
        /\ documents[ret.result.id].status = "error"
        /\ documents[ret.result.id].error_message = ret.caught.message

\* the vector upsert raised during an upload
C4_Witness ==
    /\ ret.op = "upload_document"
    /\ ret.caught = Exc("IndexUnavailable", "IndexUnavailable")
    /\ ret.result.status = "error"

\* the points of the index that carry document id d
PointsOf(d) ==
    UNION { { <<c, id>> : id \in { i \in DOMAIN qdrant[c] :
                                     qdrant[c][i].payload.document_id = d } } :
            c \in DOMAIN qdrant }

\* the chunks the chunker returns for the stored file of document d
Produced(d) ==
    Len(DocChunks(d, documents[d].data_source_id,
                  files[documents[d].storage_path], tiktoken_ok))

\* C5: a Document with status ready has chunk_count equal to the number of
\* chunks the chunker produced for it and to the number of points the vector
\* index holds for its document id.
C5_ReadyChunkCount ==
    \A d \in DOMAIN documents :
        documents[d].status = "ready" =>
            /\ documents[d].chunk_count = Produced(d)
            /\ documents[d].chunk_count = Cardinality(PointsOf(d))

\* a ready document of two chunks
C5_Witness ==
    \E d \in DOMAIN documents :
        documents[d].status = "ready" /\ documents[d].chunk_count = 2

(***************************************************************************)
(* Claims about concurrent re-ingestion, checked under SpecReingest       *)
(***************************************************************************)

\* the points of the re-ingested document in the tenant's collection
ReingestPoints ==
    { id \in PointsIn(ReingestTenant) :
        qdrant[Collection(ReingestTenant)][id].payload.document_id = ReingestDoc }

\* the chunk indexes carried by the points with the given ids
IndexesOf(ids) ==
    { qdrant[Collection(ReingestTenant)][id].payload.chunk_index : id \in ids }

\* C11: under any interleaving of store_chunks calls for the same tenant,
\* document id and chunk list, the index never holds two points for one chunk
\* index of the document, and once a call has returned it holds exactly one
\* point per chunk index, the set of points a single run leaves.
C11_ReingestionIdempotent ==
    LET n == Len(ReingestChunks)
    IN  /\ Cardinality(ReingestPoints) = Cardinality(IndexesOf(ReingestPoints))
        /\ IndexesOf(ReingestPoints) \subseteq 0..(n - 1)
        /\ (ret.op = "store_chunks" /\ ret.raised = None /\ n > 0) =>
              /\ IndexesOf(ReingestPoints) = 0..(n - 1)
              /\ qdrant = store_chunks(<<>>, ReingestTenant, ReingestDoc,
                                       ReingestChunks, "none", 1).qdrant

\* a call writes its second batch after another call has returned
C11_Witness ==
    /\ ret.op = "store_chunks" /\ ret.raised = None
    /\ \E c \in CallIds : calls[c].pc = "upsert" /\ calls[c].batch = 2
    /\ \E c \in CallIds : calls[c].pc = "returned"
    /\ Cardinality(ReingestPoints) = BATCH_SIZE + 1


(***************************************************************************)
(* Claims about deletion, filtering and the embedding provider, checked   *)
(* under Spec                                                             *)
(***************************************************************************)

\* C12: after RAGService.delete_document returned True for a document,
\* no vector point carries its document id, no file is left at its storage
\* path, and its Document row is gone.
C12_DeleteDocumentRemovesAll ==
    (ret.op = "delete_document" /\ ret.result = TRUE) =>
        /\ PointsOf(ret.document_id) = {}
        /\ ret.storage_path \notin DOMAIN files
        /\ ret.document_id \notin DOMAIN documents

\* the points of the index that carry data source id ds
PointsOfSource(ds) ==
    UNION { { <<c, id>> : id \in { i \in DOMAIN qdrant[c] :
                                     qdrant[c][i].payload.data_source_id = ds } } :
            c \in DOMAIN qdrant }

\* C13: after delete_model_data_source or delete_subscription_data_source
\* succeeded for a data source, none of its Documents is left and the index
\* holds no point of it, so that no search returns a chunk of it.
C13_DataSourceDeletionCascades ==
    (ret.op \in {"delete_model_data_source", "delete_subscription_data_source"}
        /\ ret.raised = None) =>
        /\ CascadeDocuments(documents, ret.data_source_id) = {}
        /\ PointsOfSource(ret.data_source_id) = {}

\* C14: a query, and a chat request with RAG enabled, that names a non-empty
\* list of data source ids runs its search and gets only chunks whose
\* data_source_id is in the list.
C14_DataSourceFilterApplied ==
    (ret.op \in {"query_documents", "create_completion",
                 "create_streaming_completion"}
        /\ ret.data_source_ids # {}) =>
        /\ ret.collection # NoCollection
        /\ \A h \in ret.hits : h.data_source_id \in ret.data_source_ids

\* C16: the embeddings of an upload are generated by the provider that
\* ModelRegistry.get_provider builds for the owning model's provider kind and
\* provider_config.
C16_EmbeddingsByModelProvider ==
    (ret.op = "upload_document" /\ ret.embedder # NoProvider) =>
        ret.embedder = get_provider(AIModels[ret.model_id])


(***************************************************************************)
(* Claims about the providers, checked under SpecProv                     *)
(***************************************************************************)

\* the key the embeddings request of a provider is sent with; Ollama's
\* endpoint takes none
EmbeddingsKey(p) ==
    CASE p.class = "OpenAIProvider" -> ProviderApiKey(p, settings)
      [] p.class = "OllamaProvider" -> "no key needed"
      [] OTHER -> ProviderApiKey(OpenAIProvider(NoConfig), settings)

\* C15: with its endpoint answering and the key of the request configured,
\* get_embeddings of every provider class returns one vector per text, the
\* i-th for the i-th text, for lists of every length, the empty list included.
C15_OneVectorPerText ==
    (ret.op = "get_embeddings" /\ ret.endpoint = "ok"
        /\ EmbeddingsKey(ret.provider) # None) =>
        /\ ret.raised = None
        /\ ret.result = Vectors(ret.texts)

\* C18: whichever way a stream() call ended, its HTTP stream handle is
\* closed.
C18_StreamHandleClosed ==
    \A i \in DOMAIN streams : streams[i] = "closed"

\* C19: health_check and ModelRegistry.check_health never raise; they give a
\* boolean, False whenever the round trip did not succeed.
C19_HealthCheckNeverRaises ==
    (ret.op \in {"health_check", "check_health"}) =>
        /\ ret.raised = None
        /\ ret.result \in BOOLEAN
        /\ ret.roundtrip # "ok" => ret.result = FALSE

\* a health check whose round trip raised
C19_Witness ==
    /\ ret.op = "health_check" /\ ret.roundtrip = "raises"
    /\ ret.class = "VLLMProvider"
    /\ ret.result = FALSE

\* the provider has every parameter its backend requires
Configured(p) ==
    CASE p.class \in SdkClasses     -> ProviderApiKey(p, settings) # None
      [] p.class = "VLLMProvider"   -> ProviderBaseUrl(p, settings) # None
      [] p.class = "OllamaProvider" -> TRUE

\* C20: every provider object that was constructed has the parameters its
\* backend requires: an API key for the hosted backends, a base URL for vLLM.
C20_NoUnconfiguredProvider ==
    \A p \in providers : Configured(p)


\* the integers nearest to 1.3 * w (two of them when 1.3 * w lies halfway)
RoundedEstimates(w) ==
    { k \in 0..(2 * w) : 10 * k - 13 * w <= 5 /\ 13 * w - 10 * k <= 5 }

\* C27: count_tokens of AnthropicProvider, OllamaProvider and VLLMProvider
\* returns round(word_count * 1.3), a non-negative integer.
C27_EstimateIsRounded ==
    (ret.op = "count_tokens" /\ ret.class # "OpenAIProvider") =>
        /\ ret.result \in Nat
        /\ ret.result \in RoundedEstimates(ret.text.words)

(***************************************************************************)
(* Claims about the chat endpoints, checked under SpecChat                *)
(***************************************************************************)

\* C17: a chat request whose provider call produced output (a blocking
\* completion that returned, or a stream that delivered at least one
\* fragment, however it ended) added exactly one usage record, of that
\* request, with non-negative integer token counts.
C17_OneUsageRecordPerRequest ==
    (ret.op \in {"create_completion", "create_streaming_completion"}
        /\ ret.delivered > 0) =>
        /\ Len(usage_records) = ret.usage_before + 1
        /\ LET u == usage_records[Len(usage_records)]
           IN  /\ u.organization_id = ret.org_id /\ u.model_id = ret.model_id
               /\ u.request_count = 1
               /\ u.input_tokens \in Nat /\ u.output_tokens \in Nat

\* the types of the events of a sequence
EventTypes(events) == [i \in DOMAIN events |-> events[i].type]

\* the events after the leading content events
AfterContent(events) ==
    LET lead == { i \in DOMAIN events :
                    \A j \in 1..i : events[j].type = "content" }
    IN  SubSeq(events, Cardinality(lead) + 1, Len(events))

\* C28: the events of a streaming chat request are content events followed
\* by usage and done, or by one error; a stream the consumer left may end
\* before that; the usage record is committed before the usage event, which
\* carries its token counts.
C28_StreamEventOrder ==
    (ret.op = "create_streaming_completion" /\ ret.raised = None) =>
        LET rest == AfterContent(ret.events)
        IN  /\ EventTypes(rest) \in
                  { <<"usage", "done">>, <<"error">> }
                  \cup (IF ret.exit = "abandoned" THEN { <<>> } ELSE {})
            /\ EventTypes(rest) = <<"usage", "done">> =>
                  /\ ret.committed_after # NoneArg
                  /\ ret.committed_after = Len(ret.events) - 2
                  /\ Len(usage_records) = ret.usage_before + 1
                  /\ usage_records[Len(usage_records)].input_tokens
                       = rest[1].input_tokens
                  /\ usage_records[Len(usage_records)].output_tokens
                       = rest[1].output_tokens

\* a stream failed after two fragments: two content events and one error
C28_Witness ==
    /\ ret.op = "create_streaming_completion" /\ ret.raised = None
    /\ ret.exit = "failed"
    /\ EventTypes(ret.events) = <<"content", "content", "error">>

\* C29: a chat request of a subscription for which check_usage_limits
\* reports allowed = false is rejected before the provider is called, on the
\* blocking and on the streaming endpoint alike.
C29_LimitsAreEnforced ==
    (ret.op \in {"create_completion", "create_streaming_completion"}
        /\ ret.subscription_id # NoneArg /\ ~ret.allowed) =>
        /\ ret.raised = "HTTP_429_TOO_MANY_REQUESTS"
        /\ ret.delivered = 0

(***************************************************************************)
(* Claims about rejected uploads, checked under Spec                      *)
(***************************************************************************)

\* a call of upload_document that named no data source of the model
C30_Step ==
    (/\ ret' # ret /\ ret'.op = "upload_document"
     /\ \/ ret'.data_source_id \notin DOMAIN data_sources
        \/ data_sources[ret'.data_source_id].model_id # ret'.model_id) =>
        /\ ret'.raised = "ValueError"
        /\ UNCHANGED <<files, documents, qdrant, data_sources, ingest_log,
                       next_uuid>>

\* C30: upload_document for a data source id that does not exist, or that
\* belongs to another model, raises ValueError and writes no file, adds no
\* Document row and leaves the index as it was.
C30_RejectedUploadChangesNothing == [][C30_Step]_vars

\* an upload was rejected that named a data source of the other model, with
\* a document of that data source indexed
C30_Witness ==
    /\ ret.op = "upload_document" /\ ret.raised = "ValueError"
    /\ ret.data_source_id \in DOMAIN data_sources
    /\ data_sources[ret.data_source_id].model_id # ret.model_id
    /\ DOMAIN qdrant # {}

(***************************************************************************)
(* Claims about queries, checked under SpecQuery                           *)
(***************************************************************************)

C22_DataSourceStatusFollowsIngestion ==
    (ret.op = "upload_document" /\ ret.raised = None) =>
        LET source == data_sources[ret.data_source_id]
        IN  /\ ret.result.status = "ready" => source.status # "pending"
            /\ ret.result.status = "error" =>
                  source.status = "error" /\ source.error_message # None

(***************************************************************************)
(* Claims about long documents, checked under SpecIngest                   *)
(***************************************************************************)

\* the ids of the points tenant t holds for document d
PointsOfDocument(t, d) ==
    IF get_collection_name(t) \notin DOMAIN qdrant THEN {}
    ELSE { id \in DOMAIN qdrant[get_collection_name(t)] :
             qdrant[get_collection_name(t)][id].payload.document_id = d }

\* an upload whose second upsert failed returned
SecondBatchFailed ==
    /\ ret.op = "upload_document" /\ ret.raised = None
    /\ ret.fault = "upsert_second_batch"
    /\ ret.caught # NoExc

C25_State ==
    SecondBatchFailed =>
        /\ documents[ret.result.id].status = "error"
        /\ ret.result.status = "error"
        /\ PointsOfDocument(ret.model_id, ret.result.id)
             = { point_id(ret.result.id, i) : i \in 0..(BATCH_SIZE - 1) }

C25_Step ==
    \A t \in ModelIds, d \in DocIds :
        ~(PointsOfDocument(t, d) \subseteq PointsOfDocument(t, d)') =>
            /\ ret'.op = "delete_document"
            /\ ret'.document_id = d

\* C25: when store_chunks fails after its first upsert batch was written, the
\* points of that batch are in the index while the Document ends in status
\* error; no step other than a delete of that document removes a point of a
\* document.
C25_NoRollback == []C25_State /\ [][C25_Step]_vars

\* the second upsert of a long document failed: one batch of points is left
C25_Witness ==
    /\ SecondBatchFailed
    /\ Cardinality(PointsOfDocument(ret.model_id, ret.result.id)) = BATCH_SIZE

\* the requests of one kind an upload sent, as the sets of chunk positions
RequestsOf(kind) ==
    { i \in DOMAIN ret.requests : ret.requests[i].kind = kind }

\* C26: during upload_document every embeddings request and every upsert
\* request carries at most BATCH_SIZE chunks; when the ingestion succeeded,
\* the requests of either kind carry every chunk of the document exactly
\* once, in more than one request when there are more than BATCH_SIZE chunks.
C26_RequestsAreBounded ==
    (ret.op = "upload_document" /\ ret.raised = None) =>
        /\ \A i \in DOMAIN ret.requests :
              Cardinality(ret.requests[i].items) <= BATCH_SIZE
        /\ ret.caught = NoExc =>
              \A kind \in {"embeddings", "upsert"} :
                 /\ UNION { ret.requests[i].items : i \in RequestsOf(kind) }
                      = 0..(ret.produced - 1)
                 /\ \A i, j \in RequestsOf(kind) :
                       i # j => ret.requests[i].items \cap ret.requests[j].items = {}
                 /\ ret.produced > BATCH_SIZE => Cardinality(RequestsOf(kind)) > 1

====
